---- MODULE Spec2Model ----
(***************************************************************************)
(* State-machine model of the vector index store of                       *)
(* src/app/services/vector_store.py (VectorStoreService): the in-memory   *)
(* FAISS index, the parallel metadata log, the two persisted artifacts    *)
(* (faiss.index, metadata.json) and the operations add_chunks, query,     *)
(* get_collection_stats, list_documents, delete_document,                 *)
(* reset_collection and the load performed when a process starts.         *)
(*                                                                         *)
(* Conventions.                                                            *)
(*  - The index is [init, vecs]: init = FALSE is Python's None; vecs is   *)
(*    the sequence of stored vectors (ntotal = Len(vecs)).  FAISS counts  *)
(*    positions from 0, the model from 1.                                 *)
(*  - A file is [state, data]: state is "missing", "corrupt" (present     *)
(*    but unreadable) or "ok" (present, holding data).                    *)
(*  - Every call records its name, argument, return value, the place an   *)
(*    exception came from ("none" when it returned), the number of calls  *)
(*    made to the embedding provider and whether a warning was logged.    *)
(*    allCompleted records that no mutating call has raised since the     *)
(*    running process loaded the store.                                   *)
(*  - The environment decides where a call fails: the embedding provider, *)
(*    the index constructor, the vector append and the two file writes of *)
(*    _save can each raise.  A write that fails midway leaves a          *)
(*    truncated, unreadable file; metadata.json failing to open (or the   *)
(*    process dying between the two writes) leaves the old metadata next  *)
(*    to the new index blob.                                              *)
(*  - Record ids stand for uuid4 values: a counter hands out fresh ones.  *)
(*                                                                         *)
(* The second part models LLMService of src/app/services/llm_service.py:   *)
(* the provider registry built at construction and generate_answer, whose  *)
(* pass over the candidate providers is one step per provider.generate     *)
(* call (a network call the environment lets return a text or raise).      *)
(* Python's None is the string "None" where a name is expected.            *)
(*                                                                         *)
(* The third part models the upload_documents handler of                   *)
(* src/app/api/routes.py on the event loop that runs every handler: the    *)
(* handler suspends only at `await file.read()`, where the loop may serve  *)
(* other requests; between two suspensions it runs alone.  Its steps are   *)
(* the runs from one suspension to the next, the run through add_chunks    *)
(* being cut in two at the entry of the call.                              *)
(***************************************************************************)
EXTENDS Integers, Sequences, FiniteSets, TLC

VARIABLES index, docs, idxFile, metaFile, nextId,
          op, arg, ret, exc, embedCalls, warned, allCompleted,
          credentials, _providers, llmPc, llmArg, candidates, pos, calls,
          last_error, llmRet,
          upPc, received, files, total_chunks, documents_indexed, errors,
          addCounts, upRet

\* the store, its files and the outcome of the last store call
storeVars == <<index, docs, idxFile, metaFile, nextId,
               op, arg, ret, exc, embedCalls, warned, allCompleted>>

\* LLMService: the API keys of the settings, the provider registry and the
\* position of the generate_answer call in progress
llmVars == <<credentials, _providers, llmPc, llmArg, candidates, pos, calls,
             last_error, llmRet>>

\* the upload_documents request in progress: its position, the number of
\* files it was sent, the files still to process, its counters, the values
\* add_chunks returned to it and its response
apiVars == <<upPc, received, files, total_chunks, documents_indexed, errors,
             addCounts, upRet>>

vars == <<storeVars, llmVars, apiVars>>

----------------------------------------------------------------------------
(* Bounds of the model *)

\* longest batch handed to add_chunks
MaxBatch == 2
\* number of record ids (uuid4 values) the run may draw: the chunks it may add
MaxIds == 3
\* largest top_k a caller passes to query
MaxK == 2

(* Program constants *)

\* settings.top_k_results
TopKResults == 3

Texts == {"t1", "t2"}
Sources == {"a.pdf", "b.pdf"}
Questions == {"q1"}

\* DocumentChunk(text, metadata): the chunks callers hand to add_chunks
Chunks == {[text |-> "t1", metadata |-> [source |-> "a.pdf"]],
           [text |-> "t2", metadata |-> [source |-> "b.pdf"]]}

RECURSIVE SeqsUpTo(_, _)
SeqsUpTo(S, n) ==
    IF n = 0 THEN {<<>>}
    ELSE LET shorter == SeqsUpTo(S, n - 1)
         IN shorter \cup {Append(s, x) : s \in {t \in shorter : Len(t) = n - 1}, x \in S}

Batches == SeqsUpTo(Chunks, MaxBatch)

Min(a, b) == IF a < b THEN a ELSE b

Range(s) == {s[i] : i \in 1..Len(s)}

----------------------------------------------------------------------------
(* Embedding provider and vector arithmetic *)

\* model.encode(text): the raw embedding, not yet of unit length
EmbedRaw(t) ==
    CASE t = "t1" -> <<3, 0>>
      [] t = "t2" -> <<0, 10>>
      [] t = "q1" -> <<6, 8>>

\* Euclidean norm (every raw embedding has an integral one)
Norm(v) == CHOOSE n \in 0..10 : n * n = v[1] * v[1] + v[2] * v[2]

\* faiss.normalize_L2, in fixed point: unit length is 5
NormalizeL2(v) == [i \in 1..2 |-> (v[i] * 5) \div Norm(v)]

\* embed_texts followed by normalize_L2, for a list of texts
RECURSIVE EmbedTexts(_)
EmbedTexts(texts) ==
    IF texts = <<>> THEN <<>>
    ELSE <<NormalizeL2(EmbedRaw(Head(texts)))>> \o EmbedTexts(Tail(texts))

\* embed_query followed by normalize_L2
EmbedQuery(q) == NormalizeL2(EmbedRaw(q))

\* IndexFlatIP's metric
InnerProduct(u, v) == u[1] * v[1] + u[2] * v[2]

----------------------------------------------------------------------------
(* Values *)

NoIndex == [init |-> FALSE, vecs |-> <<>>]
\* faiss.IndexFlatIP(dimension): a fresh, empty index
NewIndex == [init |-> TRUE, vecs |-> <<>>]

MissingFile == [state |-> "missing", data |-> <<>>]
CorruptFile == [state |-> "corrupt", data |-> <<>>]
FileOf(data) == [state |-> "ok", data |-> data]

NoArg == [chunks |-> <<>>, source |-> "", question |-> "", top_k |-> 0]
NoRet == [count |-> 0, found |-> FALSE, results |-> <<>>, names |-> <<>>,
          total_documents |-> 0, total_chunks |-> 0]

\* index.ntotal if index else 0
NTotal(ix) == IF ix.init THEN Len(ix.vecs) ELSE 0

TextsOf(recs) == [i \in 1..Len(recs) |-> recs[i].text]

----------------------------------------------------------------------------
(* Persistence *)

\* _load without the except branch's reset: an unreadable metadata.json
\* leaves the index that was read before it
LoadKeepsIndex(ixf, mf) ==
    IF ixf.state # "missing" /\ mf.state # "missing"
    THEN IF ixf.state = "ok"
         THEN [index |-> [init |-> TRUE, vecs |-> ixf.data],
               docs |-> IF mf.state = "ok" THEN mf.data ELSE <<>>,
               warned |-> mf.state # "ok"]
         ELSE [index |-> NoIndex, docs |-> <<>>, warned |-> TRUE]
    ELSE [index |-> NoIndex, docs |-> <<>>, warned |-> FALSE]

\* _load: the index, the log and whether logger.warning was called
_load(ixf, mf) ==
    IF ixf.state # "missing" /\ mf.state # "missing"
    THEN IF ixf.state = "ok" /\ mf.state = "ok"
         THEN [index |-> [init |-> TRUE, vecs |-> ixf.data],
               docs |-> mf.data, warned |-> FALSE]
         ELSE [index |-> NoIndex, docs |-> <<>>, warned |-> TRUE]
    ELSE [index |-> NoIndex, docs |-> <<>>, warned |-> FALSE]

\* where _save can raise: while faiss writes the index blob, when
\* metadata.json is opened (or the process dies between the two writes),
\* while json.dump writes it
SaveFaults == {"write_index", "open_meta", "dump_meta"}

\* _save that writes the index blob and forgets metadata.json
SaveIndexOnly(ix, recs, ixf, mf, fault) ==
    IF ~ix.init THEN [idxFile |-> ixf, metaFile |-> mf]
    ELSE [idxFile |-> IF fault = "write_index" THEN CorruptFile ELSE FileOf(ix.vecs),
          metaFile |-> mf]

\* _save: the two files after the call; write_index first, then json.dump
_save(ix, recs, ixf, mf, fault) ==
    IF ~ix.init THEN [idxFile |-> ixf, metaFile |-> mf]
    ELSE CASE fault = "write_index" -> [idxFile |-> CorruptFile, metaFile |-> mf]
           [] fault = "open_meta"   -> [idxFile |-> FileOf(ix.vecs), metaFile |-> mf]
           [] fault = "dump_meta"   -> [idxFile |-> FileOf(ix.vecs),
                                        metaFile |-> CorruptFile]
           [] OTHER                 -> [idxFile |-> FileOf(ix.vecs),
                                        metaFile |-> FileOf(recs)]

\* _ensure_index
_ensure_index(ix) == IF ~ix.init THEN NewIndex ELSE ix

----------------------------------------------------------------------------
(* add_chunks *)

\* the records appended for a batch, ids drawn from nextId on (uuid4)
NewRecords(chunks, first) ==
    [i \in 1..Len(chunks) |->
        [id |-> first + i - 1, text |-> chunks[i].text,
         metadata |-> chunks[i].metadata]]

\* the places a call of add_chunks on this batch can raise
AddFaults(chunks) ==
    IF chunks = <<>> THEN {"none"}
    ELSE {"none", "embed", "append"} \cup SaveFaults
         \cup (IF index.init THEN {} ELSE {"create"})

\* the store's mutable state with nothing changed
Kept == [index |-> index, docs |-> docs, idxFile |-> idxFile,
         metaFile |-> metaFile, nextId |-> nextId]

\* state after add_chunks(chunks) when the environment fails it at fault
AddOutcome(chunks, fault) ==
    LET vectors == EmbedTexts(TextsOf(chunks))
        ensured == _ensure_index(index)
        index1  == [ensured EXCEPT !.vecs = @ \o vectors]
        docs1   == docs \o NewRecords(chunks, nextId)
        saved   == _save(index1, docs1, idxFile, metaFile, fault)
    IN CASE chunks = <<>>     -> Kept
         [] fault = "embed"   -> Kept
         [] fault = "create"  -> Kept
         [] fault = "append"  -> [Kept EXCEPT !.index = ensured]
         [] OTHER -> [index |-> index1, docs |-> docs1,
                      idxFile |-> saved.idxFile, metaFile |-> saved.metaFile,
                      nextId |-> nextId + Len(chunks)]

add_chunks(chunks, fault) ==
    /\ nextId + Len(chunks) <= MaxIds + 1
    /\ LET out == AddOutcome(chunks, fault)
       IN /\ index' = out.index
          /\ docs' = out.docs
          /\ idxFile' = out.idxFile
          /\ metaFile' = out.metaFile
          /\ nextId' = out.nextId
    /\ op' = "add"
    /\ arg' = [NoArg EXCEPT !.chunks = chunks]
    /\ exc' = fault
    /\ ret' = IF fault = "none" THEN [NoRet EXCEPT !.count = Len(chunks)] ELSE NoRet
    /\ embedCalls' = IF chunks = <<>> THEN 0 ELSE 1
    /\ warned' = FALSE
    /\ allCompleted' = (allCompleted /\ fault = "none")

----------------------------------------------------------------------------
(* reset_collection and delete_document *)

\* reset_collection that forgets to unlink metadata.json
ResetKeepsMeta ==
    [Kept EXCEPT !.index = NoIndex, !.docs = <<>>, !.idxFile = MissingFile]

\* reset_collection: index and log dropped, both files unlinked
ResetOutcome ==
    [Kept EXCEPT !.index = NoIndex, !.docs = <<>>,
                 !.idxFile = MissingFile, !.metaFile = MissingFile]

reset_collection ==
    /\ index' = ResetOutcome.index
    /\ docs' = ResetOutcome.docs
    /\ idxFile' = ResetOutcome.idxFile
    /\ metaFile' = ResetOutcome.metaFile
    /\ op' = "reset"
    /\ arg' = NoArg
    /\ exc' = "none"
    /\ ret' = NoRet
    /\ embedCalls' = 0
    /\ warned' = FALSE
    /\ UNCHANGED <<nextId, allCompleted>>

\* the filter with its comparison inverted: keeps the records to delete
SurvivorsInverted(recs, source_name) ==
    SelectSeq(recs, LAMBDA d : d.metadata.source = source_name)

\* new_docs: the records whose source is not source_name
Survivors(recs, source_name) ==
    SelectSeq(recs, LAMBDA d : d.metadata.source # source_name)

\* delete_document without the "nothing found" return: rebuilds anyway
DeleteBranchNoEarlyReturn(source_name) ==
    IF ~index.init \/ docs = <<>> THEN "nothing"
    ELSE IF Survivors(docs, source_name) = <<>> THEN "reset"
    ELSE "rebuild"

\* "rebuild" | "reset" | "nothing": the branch delete_document takes
DeleteBranch(source_name) ==
    IF ~index.init \/ docs = <<>> THEN "nothing"
    ELSE IF Len(Survivors(docs, source_name)) = Len(docs) THEN "nothing"
    ELSE IF Survivors(docs, source_name) = <<>> THEN "reset"
    ELSE "rebuild"

\* the places a call of delete_document can raise
DeleteFaults(source_name) ==
    IF DeleteBranch(source_name) = "rebuild"
    THEN {"none", "embed"} \cup SaveFaults
    ELSE {"none"}

\* state after delete_document(source_name) when the environment fails it at fault
\* delete_document replacing index and log before it embeds the survivors
DeleteOutcomeEmbedLate(source_name, fault) ==
    LET new_docs == Survivors(docs, source_name)
        index1   == [init |-> TRUE, vecs |-> EmbedTexts(TextsOf(new_docs))]
        saved    == _save(index1, new_docs, idxFile, metaFile, fault)
    IN CASE DeleteBranch(source_name) = "nothing" -> Kept
         [] DeleteBranch(source_name) = "reset"   -> ResetOutcome
         [] fault = "embed" -> [Kept EXCEPT !.index = NewIndex,
                                            !.docs = new_docs]
         [] OTHER -> [Kept EXCEPT !.index = index1, !.docs = new_docs,
                                  !.idxFile = saved.idxFile,
                                  !.metaFile = saved.metaFile]

DeleteOutcome(source_name, fault) ==
    LET new_docs == Survivors(docs, source_name)
        index1   == [init |-> TRUE, vecs |-> EmbedTexts(TextsOf(new_docs))]
        saved    == _save(index1, new_docs, idxFile, metaFile, fault)
    IN CASE DeleteBranch(source_name) = "nothing" -> Kept
         [] DeleteBranch(source_name) = "reset"   -> ResetOutcome
         [] fault = "embed"                       -> Kept
         [] OTHER -> [Kept EXCEPT !.index = index1, !.docs = new_docs,
                                  !.idxFile = saved.idxFile,
                                  !.metaFile = saved.metaFile]

delete_document(source_name, fault) ==
    /\ LET out == DeleteOutcome(source_name, fault)
       IN /\ index' = out.index
          /\ docs' = out.docs
          /\ idxFile' = out.idxFile
          /\ metaFile' = out.metaFile
    /\ op' = "delete"
    /\ arg' = [NoArg EXCEPT !.source = source_name]
    /\ exc' = fault
    /\ ret' = [NoRet EXCEPT !.found = (fault = "none"
                                       /\ DeleteBranch(source_name) # "nothing")]
    /\ embedCalls' = IF DeleteBranch(source_name) = "rebuild" THEN 1 ELSE 0
    /\ warned' = FALSE
    /\ allCompleted' = (allCompleted /\ fault = "none")
    /\ UNCHANGED nextId

----------------------------------------------------------------------------
(* query *)

\* the orderings of the positions in left by descending score; positions
\* of equal score in either order
RECURSIVE Ranked(_, _)
Ranked(score, left) ==
    IF left = {} THEN {<<>>}
    ELSE LET top == CHOOSE m \in {score[p] : p \in left} :
                       \A p \in left : m >= score[p]
         IN UNION {{<<p>> \o s : s \in Ranked(score, left \ {p})} :
                      p \in {b \in left : score[b] = top}}

\* every order in which an exact inner-product search may rank the vectors
Rankings(vecs, qv) ==
    Ranked([p \in 1..Len(vecs) |-> InnerProduct(vecs[p], qv)], 1..Len(vecs))

\* index.search(query, k): the k best positions, best first
Search(vecs, qv, k) == {SubSeq(r, 1, k) : r \in Rankings(vecs, qv)}

\* the loop that formats the hits: a position with no record is skipped
RECURSIVE Formatted(_, _, _, _)
Formatted(hits, vecs, qv, recs) ==
    IF hits = <<>> THEN <<>>
    ELSE LET idx == Head(hits)
             rest == Formatted(Tail(hits), vecs, qv, recs)
         IN IF idx < 1 \/ idx > Len(recs) THEN rest
            ELSE <<[text |-> recs[idx].text, metadata |-> recs[idx].metadata,
                    distance |-> InnerProduct(vecs[idx], qv)]>> \o rest

\* the guard without the ntotal test
QueryEmptyNoneOnly(ix) == ~ix.init

\* the guard of query's early return
QueryEmpty(ix) == ~ix.init \/ Len(ix.vecs) = 0

\* the clamp applied to the configured default instead of the argument
EffectiveKIgnoresArg(top_k, ix) == Min(TopKResults, NTotal(ix))

\* top_k after "top_k or settings.top_k_results" and the clamp to ntotal
EffectiveK(top_k, ix) ==
    Min(IF top_k = 0 THEN TopKResults ELSE top_k, NTotal(ix))

\* every value query(question, top_k) may return on this store
QueryResults(ix, recs, question, top_k) ==
    IF QueryEmpty(ix) THEN {<<>>}
    ELSE {Formatted(hits, ix.vecs, EmbedQuery(question), recs) :
             hits \in Search(ix.vecs, EmbedQuery(question), EffectiveK(top_k, ix))}

\* query(question, top_k); top_k = 0 stands for a call without top_k (None),
\* ranking is the order in which the index ranks its vectors for the question
query(question, top_k, fault, ranking) ==
    /\ op' = "query"
    /\ arg' = [NoArg EXCEPT !.question = question, !.top_k = top_k]
    /\ exc' = fault
    /\ embedCalls' = IF QueryEmpty(index) THEN 0 ELSE 1
    /\ ret' = IF QueryEmpty(index) \/ fault = "embed" THEN NoRet
              ELSE [NoRet EXCEPT !.results =
                      Formatted(SubSeq(ranking, 1, EffectiveK(top_k, index)),
                                index.vecs, EmbedQuery(question), docs)]
    /\ warned' = QueryEmpty(index)
    /\ UNCHANGED <<index, docs, idxFile, metaFile, nextId, allCompleted>>

\* the places a call of query can raise
QueryFaults == IF QueryEmpty(index) THEN {"none"} ELSE {"none", "embed"}

----------------------------------------------------------------------------
(* list_documents and get_collection_stats *)

\* Python's string order on the model's source names
Before(a, b) == a = "a.pdf" /\ b = "b.pdf"

RECURSIVE Sorted(_)
Sorted(S) ==
    IF S = {} THEN <<>>
    ELSE LET least == CHOOSE x \in S : \A y \in S : ~Before(y, x)
         IN <<least>> \o Sorted(S \ {least})

\* list_documents without the set: one entry per record
ListDocumentsNoDedup(recs) ==
    [i \in 1..Len(recs) |-> recs[i].metadata.source]

\* list_documents: the distinct non-empty sources, sorted
ListDocuments(recs) ==
    IF recs = <<>> THEN <<>>
    ELSE Sorted({recs[i].metadata.source : i \in 1..Len(recs)} \ {""})

\* get_collection_stats
CollectionStats(ix, recs) ==
    [total_documents |-> Len(ListDocuments(recs)), total_chunks |-> NTotal(ix)]

\* list_documents sorting the log itself by source before reading it
ListDocumentsSortsLog ==
    /\ op' = "list"
    /\ arg' = NoArg
    /\ exc' = "none"
    /\ ret' = [NoRet EXCEPT !.names = ListDocuments(docs)]
    /\ embedCalls' = 0
    /\ warned' = FALSE
    /\ docs' = SelectSeq(docs, LAMBDA r : r.metadata.source = "a.pdf")
                \o SelectSeq(docs, LAMBDA r : r.metadata.source # "a.pdf")
    /\ UNCHANGED <<index, idxFile, metaFile, nextId, allCompleted>>

list_documents ==
    /\ op' = "list"
    /\ arg' = NoArg
    /\ exc' = "none"
    /\ ret' = [NoRet EXCEPT !.names = ListDocuments(docs)]
    /\ embedCalls' = 0
    /\ warned' = FALSE
    /\ UNCHANGED <<index, docs, idxFile, metaFile, nextId, allCompleted>>

get_collection_stats ==
    /\ op' = "stats"
    /\ arg' = NoArg
    /\ exc' = "none"
    /\ ret' = [NoRet EXCEPT
                 !.total_documents = CollectionStats(index, docs).total_documents,
                 !.total_chunks = CollectionStats(index, docs).total_chunks]
    /\ embedCalls' = 0
    /\ warned' = FALSE
    /\ UNCHANGED <<index, docs, idxFile, metaFile, nextId, allCompleted>>

----------------------------------------------------------------------------
(* LLMService: the provider registry and generate_answer *)

\* longest list of retrieved chunks handed to generate_answer
MaxRetrieved == 2

\* the candidates of _init_providers, in their priority order
ProviderOrder == <<"gemini", "openai">>
ProviderNames == {"gemini", "openai"}

\* the provider argument: None, or a value of the request's enum
Requestable == {"None", "gemini", "openai"}

\* texts a provider's generate may return (stripped, so possibly empty)
Answers == {"", "an answer"}
\* exceptions a provider's generate may raise
ProviderErrors == {"timeout", "quota"}

\* the answer of generate_answer when there is no context
NoContextMessage == "No relevant documents found to answer this question."

\* the rows query hands over: text, metadata and score of a hit
Rows == {[text |-> c.text, metadata |-> c.metadata,
          distance |-> InnerProduct(NormalizeL2(EmbedRaw(c.text)),
                                    EmbedQuery("q1"))] : c \in Chunks}
Retrieved == SeqsUpTo(Rows, MaxRetrieved)

\* [p for p in seq if p in keep], order kept
RECURSIVE Select(_, _)
Select(seq, keep) ==
    IF seq = <<>> THEN <<>>
    ELSE (IF Head(seq) \in keep THEN <<Head(seq)>> ELSE <<>>)
         \o Select(Tail(seq), keep)

\* a registry of every candidate, whether its API key is set or not
AllCandidates(keys) == ProviderOrder

\* _init_providers: the candidates whose API key is set, in priority order
_init_providers(keys) == Select(ProviderOrder, keys)

NoLLMArg == [question |-> "", context_chunks |-> <<>>, provider |-> "None"]
\* kind: "none" (no call returned yet), "answer" (a dict was returned) or
\* "error" (RuntimeError raised: error names which, detail what it carries)
NoLLMRet == [kind |-> "none", answer |-> "", references |-> <<>>,
             error |-> "none", detail |-> ""]

\* seq without the later occurrences of a value
RECURSIVE Distinct(_)
Distinct(seq) ==
    IF seq = <<>> THEN <<>>
    ELSE LET r == Distinct(SubSeq(seq, 1, Len(seq) - 1))
             last == seq[Len(seq)]
         IN IF \E i \in 1..Len(r) : r[i] = last THEN r ELSE Append(r, last)

\* references that list each text once
ReferencesDistinct(context_chunks) ==
    Distinct([i \in 1..Len(context_chunks) |-> context_chunks[i].text])

\* references = [c["text"] for c in context_chunks]
References(context_chunks) ==
    [i \in 1..Len(context_chunks) |-> context_chunks[i].text]

\* candidates without the restriction to the requested provider
CandidatesIgnoreRequest(registry, provider) == registry

\* candidates that put the requested provider first and keep the others
\* as fallback
CandidatesRequestedFirst(registry, provider) ==
    IF provider # "None"
    THEN Select(registry, {provider})
         \o Select(registry, ProviderNames \ {provider})
    ELSE registry

\* the providers to try: the requested one, or the whole registry
Candidates(registry, provider) ==
    IF provider # "None" THEN Select(registry, {provider}) ELSE registry

\* entry that tests the registry before the chunks
EntryRegistryFirst(registry, context_chunks, provider) ==
    IF registry = <<>> THEN "not_configured"
    ELSE IF context_chunks = <<>> THEN "no_context"
    ELSE IF Candidates(registry, provider) = <<>> THEN "not_available"
    ELSE "try"

\* entry that looks for the requested provider before testing the registry
EntryRequestFirst(registry, context_chunks, provider) ==
    IF context_chunks = <<>> THEN "no_context"
    ELSE IF provider # "None" /\ Candidates(registry, provider) = <<>>
         THEN "not_available"
    ELSE IF registry = <<>> THEN "not_configured"
    ELSE "try"

\* the checks of generate_answer before the first provider call, in the
\* order the code makes them
Entry(registry, context_chunks, provider) ==
    IF context_chunks = <<>> THEN "no_context"
    ELSE IF registry = <<>> THEN "not_configured"
    ELSE IF Candidates(registry, provider) = <<>> THEN "not_available"
    ELSE "try"

\* generate_answer up to its first provider call: it returns the
\* no-context message, raises, or starts the pass over the candidates
generate_answer(question, context_chunks, provider) ==
    /\ llmPc \in {"idle", "done"}
    /\ llmArg' = [question |-> question, context_chunks |-> context_chunks,
                  provider |-> provider]
    /\ calls' = <<>>
    /\ last_error' = "None"
    /\ pos' = 1
    /\ LET entry == Entry(_providers, context_chunks, provider)
       IN /\ llmPc' = IF entry = "try" THEN "trying" ELSE "done"
          /\ candidates' = IF entry = "try"
                           THEN Candidates(_providers, provider) ELSE <<>>
          /\ llmRet' =
               CASE entry = "no_context" ->
                      [NoLLMRet EXCEPT !.kind = "answer",
                                       !.answer = NoContextMessage]
                 [] entry = "not_configured" ->
                      [NoLLMRet EXCEPT !.kind = "error",
                                       !.error = "not_configured"]
                 [] entry = "not_available" ->
                      [NoLLMRet EXCEPT !.kind = "error",
                                       !.error = "not_available",
                                       !.detail = provider]
                 [] OTHER -> NoLLMRet
    /\ UNCHANGED <<credentials, _providers>>

\* the except branch keeping the first error instead of the latest
FirstError(previous, e) == IF previous = "None" THEN e ELSE previous

\* last_error = e
LastError(previous, e) == e

\* an except branch that ends the pass at the first failure
MoreCandidatesNever(cands, i) == FALSE

\* whether the for loop has another candidate after position i
MoreCandidates(cands, i) == i < Len(cands)

\* a loop that tries the failed candidate again
SamePos(i) == i

\* the for loop moves on to the next candidate
NextPos(i) == i + 1

\* one iteration of the loop: provider.generate of the candidate at pos
\* returns text (raised = FALSE) or raises the exception text
generate(raised, text) ==
    /\ llmPc = "trying"
    /\ calls' = Append(calls, [name |-> candidates[pos], raised |-> raised,
                               out |-> text])
    /\ IF ~raised
       THEN /\ llmRet' = [NoLLMRet EXCEPT
                            !.kind = "answer", !.answer = text,
                            !.references = References(llmArg.context_chunks)]
            /\ llmPc' = "done"
            /\ UNCHANGED <<pos, last_error>>
       ELSE /\ last_error' = LastError(last_error, text)
            /\ IF MoreCandidates(candidates, pos)
               THEN /\ pos' = NextPos(pos)
                    /\ UNCHANGED <<llmPc, llmRet>>
               ELSE /\ llmRet' = [NoLLMRet EXCEPT
                                    !.kind = "error", !.error = "all_failed",
                                    !.detail = last_error']
                    /\ llmPc' = "done"
                    /\ UNCHANGED pos
    /\ UNCHANGED <<credentials, _providers, llmArg, candidates>>

\* LLMService(): the registry is built from the settings' API keys
LLMInit ==
    /\ credentials \in SUBSET ProviderNames
    /\ _providers = _init_providers(credentials)
    /\ llmPc = "idle"
    /\ llmArg = NoLLMArg
    /\ candidates = <<>>
    /\ pos = 1
    /\ calls = <<>>
    /\ last_error = "None"
    /\ llmRet = NoLLMRet

----------------------------------------------------------------------------
(* upload_documents *)

\* most files in one upload request
MaxFiles == 2

Filenames == {"notes.txt", "a.pdf", "b.pdf"}
\* what file.read() can give: nothing, bytes that are no PDF, a PDF without
\* text, a PDF with text
Contents == {"", "garbage", "blank", "text"}
Uploads == SeqsUpTo(Filenames, MaxFiles)

\* file.filename.lower().endswith(".pdf")
IsPdf(filename) == filename \in {"a.pdf", "b.pdf"}

\* process_pdf(content, filename) for a PDF with text: chunks whose
\* metadata source is the filename
process_pdf(content, filename) ==
    IF content # "text" THEN <<>>
    ELSE IF filename = "a.pdf"
         THEN <<[text |-> "t1", metadata |-> [source |-> "a.pdf"]]>>
         ELSE <<[text |-> "t2", metadata |-> [source |-> "b.pdf"]],
                [text |-> "t2", metadata |-> [source |-> "b.pdf"]]>>

RECURSIVE Sum(_)
Sum(seq) == IF seq = <<>> THEN 0 ELSE Head(seq) + Sum(Tail(seq))

NoUpRet == [status |-> 0, documents_indexed |-> 0, total_chunks |-> 0,
            warnings |-> FALSE]

\* the response after the loop: 400 when no file was indexed
Respond(indexed, chunks, errs) ==
    IF indexed = 0 THEN [NoUpRet EXCEPT !.status = 400]
    ELSE [status |-> 200, documents_indexed |-> indexed,
          total_chunks |-> chunks, warnings |-> errs > 0]

\* the files from the first PDF on: a file that is no PDF is passed over
\* before the handler reaches an await
RECURSIVE SkipNonPdf(_)
SkipNonPdf(fs) ==
    IF fs = <<>> \/ IsPdf(Head(fs)) THEN fs ELSE SkipNonPdf(Tail(fs))

\* the files passed over on the way to the first PDF of fs
Rejected(fs) == Len(fs) - Len(SkipNonPdf(fs))

\* a loop that ends with the first PDF it has dealt with
RestAborted(fs) == <<>>

\* the files left once the file at the head is dealt with, whether it was
\* indexed, skipped or failed: the loop goes on, to the next PDF
Rest(fs) == SkipNonPdf(Tail(fs))

\* a request arrives at the handler, which runs to its first
\* `await file.read()` or, without a PDF among the files, to its response
upload_documents(fs) ==
    /\ upPc \in {"idle", "done"}
    /\ received' = Len(fs)
    /\ files' = SkipNonPdf(fs)
    /\ total_chunks' = 0
    /\ documents_indexed' = 0
    /\ errors' = Rejected(fs)
    /\ addCounts' = <<>>
    /\ IF SkipNonPdf(fs) = <<>>
       THEN upPc' = "done" /\ upRet' = Respond(0, 0, Rejected(fs))
       ELSE upPc' = "loop" /\ upRet' = NoUpRet
    /\ UNCHANGED storeVars

\* the counters once the file at the head is dealt with, and the run of
\* the handler to the next `await file.read()` or to its response
FileDone(rest, indexed, chunks, errs, counts) ==
    /\ files' = rest
    /\ documents_indexed' = indexed
    /\ total_chunks' = chunks
    /\ errors' = errs + Rejected(Tail(files))
    /\ addCounts' = counts
    /\ IF rest = <<>>
       THEN upPc' = "done"
            /\ upRet' = Respond(indexed, chunks, errs + Rejected(Tail(files)))
       ELSE upPc' = "loop" /\ upRet' = NoUpRet
    /\ UNCHANGED received

\* the read comes back and the file is not indexed: reading raised, the
\* file is empty, it is no PDF inside or it holds no text
FileSkipped(readFails, content) ==
    /\ upPc = "loop"
    /\ readFails \/ process_pdf(content, Head(files)) = <<>>
    /\ FileDone(Rest(files), documents_indexed, total_chunks, errors + 1,
                addCounts)
    /\ UNCHANGED storeVars

\* the read comes back with a PDF that has text: the handler is in
\* vector_store.add_chunks
EnterAddChunks ==
    /\ upPc = "loop"
    /\ nextId + Len(process_pdf("text", Head(files))) <= MaxIds + 1
    /\ upPc' = "adding"
    /\ UNCHANGED <<received, files, total_chunks, documents_indexed, errors,
                   addCounts, upRet>>
    /\ UNCHANGED storeVars

\* add_chunks returns or raises at fault, and the handler runs on
FileAdded(fault) ==
    /\ upPc = "adding"
    /\ add_chunks(process_pdf("text", Head(files)), fault)
    /\ IF fault = "none"
       THEN FileDone(Rest(files), documents_indexed + 1,
                     total_chunks + ret'.count, errors,
                     Append(addCounts, ret'.count))
       ELSE FileDone(Rest(files), documents_indexed, total_chunks,
                     errors + 1, addCounts)

\* an event loop that runs another handler while one is inside a call
LoopAlwaysFree == TRUE

\* the event loop takes up another request only when the handler it runs
\* awaits or has returned: not while the upload is inside add_chunks
LoopFree == upPc # "adding"

ApiInit ==
    /\ upPc = "idle"
    /\ received = 0
    /\ files = <<>>
    /\ total_chunks = 0
    /\ documents_indexed = 0
    /\ errors = 0
    /\ addCounts = <<>>
    /\ upRet = NoUpRet

----------------------------------------------------------------------------
(* Process start *)

\* VectorStoreService() in a new process: memory is whatever _load reads
Restart ==
    /\ index' = _load(idxFile, metaFile).index
    /\ docs' = _load(idxFile, metaFile).docs
    /\ warned' = _load(idxFile, metaFile).warned
    /\ op' = "load"
    /\ arg' = NoArg
    /\ exc' = "none"
    /\ ret' = NoRet
    /\ embedCalls' = 0
    /\ allCompleted' = TRUE
    /\ UNCHANGED <<idxFile, metaFile, nextId>>

\* the first process starts on an empty persist directory
StoreInit ==
    /\ idxFile = MissingFile
    /\ metaFile = MissingFile
    /\ index = _load(MissingFile, MissingFile).index
    /\ docs = _load(MissingFile, MissingFile).docs
    /\ warned = _load(MissingFile, MissingFile).warned
    /\ nextId = 1
    /\ op = "load"
    /\ arg = NoArg
    /\ exc = "none"
    /\ ret = NoRet
    /\ embedCalls = 0
    /\ allCompleted = TRUE

\* the services of routes.py as constructed, with both API keys set (the
\* store and the upload handler never look at the keys)
Init ==
    /\ StoreInit
    /\ LLMInit
    /\ credentials = ProviderNames
    /\ ApiInit

\* the services as constructed, with any of the API keys set
LLMSpecInit ==
    /\ StoreInit
    /\ LLMInit
    /\ ApiInit

Add == \E chunks \in Batches : \E fault \in AddFaults(chunks) : add_chunks(chunks, fault)

Delete ==
    \E source_name \in Sources :
        \E fault \in DeleteFaults(source_name) : delete_document(source_name, fault)

Query ==
    \E question \in Questions :
        \E ranking \in Rankings(index.vecs, EmbedQuery(question)) :
            \E top_k \in 0..MaxK, fault \in QueryFaults :
                query(question, top_k, fault, ranking)

Next ==
    \/ Add /\ UNCHANGED <<llmVars, apiVars>>
    \/ Delete /\ UNCHANGED <<llmVars, apiVars>>
    \/ reset_collection /\ UNCHANGED <<llmVars, apiVars>>
    \/ Query /\ UNCHANGED <<llmVars, apiVars>>
    \/ list_documents /\ UNCHANGED <<llmVars, apiVars>>
    \/ get_collection_stats /\ UNCHANGED <<llmVars, apiVars>>
    \/ Restart /\ UNCHANGED <<llmVars, apiVars>>

Spec == Init /\ [][Next]_vars

\* a call of generate_answer with any arguments
GenerateAnswer ==
    \E question \in Questions, context_chunks \in Retrieved,
       provider \in Requestable :
        generate_answer(question, context_chunks, provider)

\* provider.generate returns one of its texts or raises one of its errors
Generate ==
    \/ \E text \in Answers : generate(FALSE, text)
    \/ \E e \in ProviderErrors : generate(TRUE, e)

LLMNext ==
    \/ GenerateAnswer /\ UNCHANGED <<storeVars, apiVars>>
    \/ Generate /\ UNCHANGED <<storeVars, apiVars>>

\* LLMService on its own: the store is left as constructed
LLMSpec == LLMSpecInit /\ [][LLMNext]_vars

\* LLMService when every provider.generate call comes back, with a text or
\* with an exception: the loop then runs its next step
LLMFairSpec == LLMSpec /\ WF_vars(Generate /\ UNCHANGED <<storeVars, apiVars>>)

\* an upload request with any list of files
Upload == \E fs \in Uploads : upload_documents(fs)

\* the loop body for the next PDF of the request
UploadFile ==
    \/ \E readFails \in BOOLEAN, content \in Contents :
          FileSkipped(readFails, content)
    \/ EnterAddChunks
    \/ /\ upPc = "adding"
       /\ \E fault \in AddFaults(process_pdf("text", Head(files))) :
             FileAdded(fault)

\* ask_question's call of the store: query(question), without top_k
AskQuestion ==
    \E question \in Questions :
        \E ranking \in Rankings(index.vecs, EmbedQuery(question)) :
            \E fault \in QueryFaults : query(question, 0, fault, ranking)

\* the handlers of the routes on one event loop: the steps of an upload,
\* and the delete, list, question and health requests, each served whole
\* when the loop is free
ApiNext ==
    \/ Upload /\ UNCHANGED llmVars
    \/ UploadFile /\ UNCHANGED llmVars
    \/ LoopFree /\ Delete /\ UNCHANGED <<llmVars, apiVars>>
    \/ LoopFree /\ list_documents /\ UNCHANGED <<llmVars, apiVars>>
    \/ LoopFree /\ AskQuestion /\ UNCHANGED <<llmVars, apiVars>>
    \/ LoopFree /\ get_collection_stats /\ UNCHANGED <<llmVars, apiVars>>

ApiSpec == Init /\ [][ApiNext]_vars

----------------------------------------------------------------------------
(* Properties of the store *)

\* the vector stored for a record's text
VectorOf(text) == NormalizeL2(EmbedRaw(text))

\* the sources named by a sequence of records (or chunks)
SourcesOf(recs) == {recs[i].metadata.source : i \in 1..Len(recs)}

\* C1: positional coupling -- in every reachable state the metadata log has
\* exactly as many records as the index has vectors, and vector i is the
\* embedding of the text of record i.
C1_PositionalCoupling ==
    /\ NTotal(index) = Len(docs)
    /\ \A i \in 1..Len(docs) : index.vecs[i] = VectorOf(docs[i].text)

\* C2: add is all-or-nothing -- a call of add on a non-empty batch either
\* returns with the whole batch in the index, in the log and in both files,
\* or raises and leaves index, log and both files as they were (an index
\* created empty where there was none counts as unchanged here).
C2_AddAllOrNothing ==
    [][(op' = "add" /\ arg'.chunks # <<>>) =>
          LET n == Len(arg'.chunks)
              m == Len(docs')
          IN \/ /\ exc' = "none"
                /\ m >= n /\ NTotal(index') >= n
                /\ \A i \in 1..n :
                      /\ docs'[m - n + i].text = arg'.chunks[i].text
                      /\ docs'[m - n + i].metadata = arg'.chunks[i].metadata
                      /\ index'.vecs[NTotal(index') - n + i] = VectorOf(arg'.chunks[i].text)
                /\ idxFile' = FileOf(index'.vecs)
                /\ metaFile' = FileOf(docs')
             \/ /\ exc' # "none"
                /\ index'.vecs = index.vecs
                /\ docs' = docs
                /\ idxFile' = idxFile
                /\ metaFile' = metaFile]_vars

\* the records of recs some query on this store can return: a hit at
\* position p is mapped to record p of the log
RetrievableIds(ix, recs) ==
    IF QueryEmpty(ix) THEN {}
    ELSE {recs[p].id : p \in {h \in 1..Len(recs) :
             \E question \in Questions, top_k \in 1..(NTotal(ix) + 1) :
                \E hits \in Search(ix.vecs, EmbedQuery(question), EffectiveK(top_k, ix)) :
                   h \in Range(hits)}}

\* C3: a successful add of a non-empty batch returns the batch length,
\* raises stats().total_chunks by exactly the batch length, and every record
\* it appended can be returned by the very next query.
C3_AddCountsAndRetrievable ==
    [][(op' = "add" /\ exc' = "none" /\ arg'.chunks # <<>>) =>
          /\ ret'.count = Len(arg'.chunks)
          /\ CollectionStats(index', docs').total_chunks
                = CollectionStats(index, docs).total_chunks + Len(arg'.chunks)
          /\ \A p \in (Len(docs) + 1)..Len(docs') :
                docs'[p].id \in RetrievableIds(index', docs')]_vars

\* what the store would hold after a restart now
Reloaded == _load(idxFile, metaFile)

\* C4: persistence round trip -- while every mutating call since the process
\* loaded the store has completed, a restart would load the same metadata
\* log and the same vectors, hence report the same stats and answer every
\* query alike.
C4_RoundTrip ==
    allCompleted =>
        /\ Reloaded.docs = docs
        /\ NTotal(Reloaded.index) = NTotal(index)
        /\ Reloaded.index.vecs = index.vecs
        /\ CollectionStats(Reloaded.index, Reloaded.docs) = CollectionStats(index, docs)
        /\ \A question \in Questions, top_k \in 0..MaxK :
              QueryResults(Reloaded.index, Reloaded.docs, question, top_k)
                 = QueryResults(index, docs, question, top_k)

\* a process that loaded two or more records from the files
C4_Witness ==
    /\ op = "load" /\ allCompleted
    /\ Len(docs) >= 2 /\ NTotal(index) = Len(docs)
    /\ Cardinality(SourcesOf(docs)) = 2

\* C5: a query with positive k returns at most min(k, total_chunks) results,
\* in descending order of similarity score.
C5_QueryBoundedSorted ==
    (op = "query" /\ exc = "none" /\ arg.top_k > 0) =>
        /\ Len(ret.results) <= Min(arg.top_k, CollectionStats(index, docs).total_chunks)
        /\ \A i, j \in 1..Len(ret.results) :
              i < j => ret.results[i].distance >= ret.results[j].distance

\* k = 2 on three vectors: two results, the better one first
C5_Witness ==
    /\ op = "query" /\ exc = "none" /\ arg.top_k = 2
    /\ NTotal(index) = 3
    /\ Len(ret.results) = 2
    /\ ret.results[1].distance > ret.results[2].distance

\* C6: a query on a store with no index, or with an index of zero vectors,
\* returns the empty sequence, does not raise and does not call the
\* embedding provider.
C6_QueryOnEmptyStore ==
    (op = "query" /\ (~index.init \/ Len(index.vecs) = 0)) =>
        /\ exc = "none"
        /\ ret.results = <<>>
        /\ embedCalls = 0

\* a query after a load that failed on an unreadable metadata log
C6_Witness ==
    /\ op = "query" /\ ~index.init
    /\ idxFile.state = "ok" /\ metaFile.state = "corrupt"

\* C7: delete_document(s) when no record has source s returns false, makes
\* no embedding call and leaves index, log, both files and stats as they were.
C7_DeleteNoMatchNoChange ==
    [][(op' = "delete" /\ arg'.source \notin SourcesOf(docs)) =>
          /\ exc' = "none"
          /\ ~ret'.found
          /\ embedCalls' = 0
          /\ index' = index /\ docs' = docs
          /\ idxFile' = idxFile /\ metaFile' = metaFile
          /\ CollectionStats(index', docs') = CollectionStats(index, docs)]_vars

\* a delete that found nothing on a store holding another source's records
C7_Witness ==
    /\ op = "delete" /\ ~ret.found /\ exc = "none"
    /\ docs # <<>> /\ index.init
    /\ arg.source \notin SourcesOf(docs)

\* C8: delete_document(s) when the log is not empty and every record has
\* source s returns true and leaves what reset_collection leaves: no index,
\* an empty log, neither file on disk.
C8_DeleteAllIsReset ==
    [][(op' = "delete" /\ docs # <<>> /\ SourcesOf(docs) = {arg'.source}) =>
          /\ exc' = "none"
          /\ ret'.found
          /\ index' = NoIndex
          /\ docs' = <<>>
          /\ idxFile' = MissingFile
          /\ metaFile' = MissingFile]_vars

\* a delete that found its source and emptied the store
C8_Witness ==
    /\ op = "delete" /\ ret.found /\ exc = "none"
    /\ docs = <<>>

C10_LoadWarns ==
    (op = "load" /\ (idxFile.state # "ok" \/ metaFile.state # "ok")) =>
        /\ exc = "none"
        /\ index = NoIndex /\ docs = <<>>
        /\ warned

\* C10: a load never raises; when either artifact is missing or unreadable
\* the store is empty; the warning is logged exactly when both files exist
\* and one of them is unreadable, and not when a file is missing.
C10_LoadNeverFails ==
    op = "load" =>
        /\ exc = "none"
        /\ (idxFile.state # "ok" \/ metaFile.state # "ok") =>
              (index = NoIndex /\ docs = <<>>)
        /\ warned <=> /\ idxFile.state # "missing" /\ metaFile.state # "missing"
                      /\ (idxFile.state = "corrupt" \/ metaFile.state = "corrupt")

\* a load that read the index blob and then failed on the metadata log
C10_Witness ==
    /\ op = "load" /\ warned
    /\ idxFile.state = "ok" /\ metaFile.state = "corrupt"
    /\ index = NoIndex /\ docs = <<>>

----------------------------------------------------------------------------
(* Properties of generate_answer *)

\* the call of generate_answer in progress or last returned had chunks
HasContext == llmArg.context_chunks # <<>>

\* C11: a call of generate_answer with no retrieved chunks returns the
\* fixed no-context message with empty references and calls no provider,
\* whatever the registry holds and whichever provider was asked for.
C11_NoContextShortCircuit ==
    (llmPc # "idle" /\ ~HasContext) =>
        /\ llmPc = "done"
        /\ llmRet = [NoLLMRet EXCEPT !.kind = "answer",
                                     !.answer = NoContextMessage]
        /\ llmRet.references = <<>>
        /\ calls = <<>>

\* a call without chunks returned although the registry is empty and the
\* provider asked for is not configured
C11_Witness ==
    /\ llmPc = "done"
    /\ ~HasContext
    /\ _providers = <<>>
    /\ llmArg.provider = "gemini"
    /\ llmRet.answer = NoContextMessage

\* C12: with chunks and no requested provider, the providers are called in
\* registry order, each after the one before it raised; the first one that
\* returns gives the answer and the earlier failures are not reported, and
\* the call fails only after every provider of the registry has raised.
C12_Fallback ==
    (llmPc # "idle" /\ HasContext /\ llmArg.provider = "None"
       /\ _providers # <<>>) =>
        LET n == Len(calls)
        IN /\ n <= Len(_providers)
           /\ \A i \in 1..n : calls[i].name = _providers[i]
           /\ \A i \in 1..(n - 1) : calls[i].raised
           /\ (llmPc = "trying") => (\A i \in 1..n : calls[i].raised)
           /\ (llmPc = "done" /\ n > 0 /\ ~calls[n].raised) =>
                 /\ llmRet.kind = "answer"
                 /\ llmRet.answer = calls[n].out
                 /\ llmRet.error = "none"
                 /\ llmRet.detail = ""
           /\ (llmPc = "done" /\ llmRet.kind = "error") =>
                 /\ n = Len(_providers)
                 /\ \A i \in 1..n : calls[i].raised

\* the primary raised, the secondary returned, and its text is the answer
C12_Witness ==
    /\ llmPc = "done"
    /\ llmArg.provider = "None"
    /\ Len(calls) = 2
    /\ calls[1].name = "gemini" /\ calls[1].raised
    /\ calls[2].name = "openai" /\ ~calls[2].raised
    /\ llmRet.kind = "answer"
    /\ llmRet.answer = "an answer"

\* the requested provider is named and is not in the registry
Unavailable ==
    /\ llmArg.provider # "None"
    /\ \A i \in 1..Len(_providers) : _providers[i] # llmArg.provider

\* C13: with chunks, a non-empty registry and a requested provider that is
\* not in it, generate_answer raises the 'not available' error naming that
\* provider, and no provider's generate is called.
C13_NotAvailable ==
    (llmPc # "idle" /\ HasContext /\ _providers # <<>> /\ Unavailable) =>
        /\ llmPc = "done"
        /\ llmRet.kind = "error"
        /\ llmRet.error = "not_available"
        /\ llmRet.detail = llmArg.provider
        /\ llmRet.answer = ""
        /\ calls = <<>>

\* gemini was asked for while only openai is configured
C13_Witness ==
    /\ llmPc = "done"
    /\ HasContext
    /\ _providers = <<"openai">>
    /\ llmArg.provider = "gemini"
    /\ llmRet.error = "not_available"

\* C14: when every candidate raised, generate_answer raises the 'all
\* providers failed' error carrying the error of the last candidate tried
\* and returns no answer; an answer returned for non-empty chunks is
\* exactly the text returned by a provider's generate in this call.
C14_AllFailed ==
    (llmPc = "done" /\ HasContext) =>
        /\ (calls # <<>> /\ \A i \in 1..Len(calls) : calls[i].raised) =>
              /\ llmRet.kind = "error"
              /\ llmRet.error = "all_failed"
              /\ llmRet.detail = calls[Len(calls)].out
              /\ llmRet.answer = ""
              /\ llmRet.references = <<>>
              /\ Len(calls) = Len(candidates)
        /\ (llmRet.error = "all_failed") =>
              (calls # <<>> /\ \A i \in 1..Len(calls) : calls[i].raised)
        /\ (llmRet.kind = "answer") =>
              \E i \in 1..Len(calls) :
                  ~calls[i].raised /\ calls[i].out = llmRet.answer

\* two candidates raised different errors and the call failed
C14_Witness ==
    /\ llmPc = "done"
    /\ llmRet.error = "all_failed"
    /\ Len(calls) = 2
    /\ calls[1].out = "timeout"
    /\ calls[2].out = "quota"

\* C15: with chunks and an empty registry, generate_answer raises the
\* configuration error whichever provider is requested, without calling a
\* provider.
C15_NotConfigured ==
    (llmPc # "idle" /\ HasContext /\ _providers = <<>>) =>
        /\ llmPc = "done"
        /\ llmRet.kind = "error"
        /\ llmRet.error = "not_configured"
        /\ llmRet.answer = ""
        /\ calls = <<>>

\* the empty registry was met by a call that asked for openai
C15_Witness ==
    /\ llmPc = "done"
    /\ HasContext
    /\ _providers = <<>>
    /\ llmArg.provider = "openai"
    /\ llmRet.error = "not_configured"

----------------------------------------------------------------------------
(* Properties of the store under requests, and of upload_documents *)

\* C16: mutating store operations exclude one another and the persistence
\* writes, so that under concurrent requests no state is reached in which
\* index and metadata log disagree, in memory or on disk.
C16_NoDisagreement ==
    /\ NTotal(index) = Len(docs)
    /\ (idxFile.state = "ok" /\ metaFile.state = "ok") =>
          Len(idxFile.data) = Len(metaFile.data)

\* C17: when the embedding provider fails during add_chunks or
\* delete_document the call raises that error and leaves the index, the
\* metadata log and both files unchanged; after such a delete the records
\* of the source are still in the log.
C17_EmbeddingFailure ==
    [][(op' \in {"add", "delete"} /\ exc' = "embed") =>
          /\ index' = index
          /\ docs' = docs
          /\ idxFile' = idxFile
          /\ metaFile' = metaFile
          /\ ret' = NoRet
          /\ (op' = "delete") => arg'.source \in SourcesOf(docs')]_vars

\* a delete that had survivors to embed failed at the embedding
C17_Witness ==
    /\ op = "delete"
    /\ exc = "embed"
    /\ Len(docs) >= 2
    /\ arg.source \in SourcesOf(docs)
    /\ idxFile.state = "ok"

\* s is sorted by Python's string order, without duplicates
StrictlySorted(s) == \A i, j \in 1..Len(s) : i < j => Before(s[i], s[j])

\* C18: in every reachable state total_documents of the stats is the
\* length of list_documents' result, which is the sorted list of the
\* distinct non-empty sources of the log, and total_chunks is the number
\* of vectors in the index, 0 when there is no index.
C18_StatsConsistent ==
    LET stats == CollectionStats(index, docs)
        names == ListDocuments(docs)
    IN /\ stats.total_documents = Len(names)
       /\ Len(names) = Cardinality(SourcesOf(docs) \ {""})
       /\ Range(names) = SourcesOf(docs) \ {""}
       /\ StrictlySorted(names)
       /\ stats.total_chunks = (IF index.init THEN Len(index.vecs) ELSE 0)
       /\ (op = "stats") => /\ ret.total_documents = stats.total_documents
                            /\ ret.total_chunks = stats.total_chunks
       /\ (op = "list") => ret.names = names

\* stats were returned for three records of two sources
C18_Witness ==
    /\ op = "stats"
    /\ Len(docs) = 3
    /\ ret.total_documents = 2
    /\ ret.total_chunks = 3

\* s is the first Len(s) elements of t
IsPrefix(s, t) == Len(s) <= Len(t) /\ s = SubSeq(t, 1, Len(s))

\* C19: an upload of several files handles every file: a file that is
\* rejected, unreadable or fails in add_chunks is counted as an error, the
\* loop goes on with the files after it and what earlier files put into the
\* store stays; the response is 200 with documents_indexed the number of
\* files whose add_chunks returned and total_chunks the sum of the counts
\* it returned when there is such a file, and 400 when there is none.
C19_UploadPartialFailure ==
    /\ [](/\ (upPc \in {"loop", "adding"}) =>
                /\ files # <<>>
                /\ Len(addCounts) + errors + Len(files) = received
                /\ upRet = NoUpRet
          /\ (upPc = "done") =>
                /\ files = <<>>
                /\ Len(addCounts) + errors = received
                /\ IF addCounts = <<>>
                   THEN upRet = [NoUpRet EXCEPT !.status = 400]
                   ELSE /\ upRet.status = 200
                        /\ upRet.documents_indexed = Len(addCounts)
                        /\ upRet.total_chunks = Sum(addCounts)
                        /\ upRet.warnings = (errors > 0))
    /\ [][(upPc \in {"loop", "adding"} /\ files' # files) =>
             /\ IsPrefix(docs, docs')
             /\ IsPrefix(index.vecs, index'.vecs)
             /\ IsPrefix(addCounts, addCounts')
             /\ documents_indexed' >= documents_indexed
             /\ total_chunks' >= total_chunks]_vars

\* after a.pdf was indexed, a second file failed while being persisted,
\* and the request was answered 200 with one document
C19_Witness ==
    /\ upPc = "done"
    /\ received = 2
    /\ op = "add"
    /\ exc = "write_index"
    /\ errors = 1
    /\ upRet.status = 200
    /\ upRet.documents_indexed = 1
    /\ Len(docs) = 2

----------------------------------------------------------------------------
(* The pass of generate_answer over its candidates *)

\* the pass ended with a provider's answer
Succeeded ==
    /\ llmRet.kind = "answer"
    /\ calls # <<>>
    /\ ~calls[Len(calls)].raised

\* the pass ended after every candidate had raised
AllFailed ==
    /\ llmRet.kind = "error"
    /\ llmRet.error = "all_failed"
    /\ Len(calls) = Len(candidates)
    /\ \A i \in 1..Len(calls) : calls[i].raised

\* C20: one call of generate_answer makes a single pass over its
\* candidates: each candidate's generate is called at most once, in
\* registry priority order, a candidate only after the one before it has
\* raised and none after one has returned; and the pass always ends, with
\* an answer (SUCCEEDED) or with all candidates failed (ALL_FAILED).
C20_SinglePass ==
    /\ [](llmPc # "idle" =>
            /\ Len(calls) <= Len(candidates)
            /\ candidates = Select(ProviderOrder,
                                   {candidates[i] : i \in 1..Len(candidates)})
            /\ \A i \in 1..Len(calls) : calls[i].name = candidates[i]
            /\ \A i, j \in 1..Len(calls) :
                  i # j => calls[i].name # calls[j].name
            /\ \A i \in 1..(Len(calls) - 1) : calls[i].raised
            /\ (llmPc = "trying") =>
                  /\ pos = Len(calls) + 1
                  /\ pos <= Len(candidates)
                  /\ \A i \in 1..Len(calls) : calls[i].raised
            /\ (llmPc = "done" /\ candidates # <<>>) =>
                  (Succeeded \/ AllFailed))
    /\ [][(calls' # calls /\ calls' # <<>>) =>
             /\ llmPc = "trying"
             /\ Len(calls') = Len(calls) + 1
             /\ SubSeq(calls', 1, Len(calls)) = calls
             /\ \A i \in 1..Len(calls) : calls[i].raised]_vars
    /\ (llmPc = "trying") ~> (llmPc = "done" /\ (Succeeded \/ AllFailed))

\* the primary answered and the secondary, a candidate too, was not called
C20_Witness ==
    /\ llmPc = "done"
    /\ Len(candidates) = 2
    /\ Len(calls) = 1
    /\ ~calls[1].raised
    /\ Succeeded

----------------------------------------------------------------------------
(* The requested provider, the references and the registry *)

\* the requested provider is named and is in the registry
Available ==
    /\ llmArg.provider # "None"
    /\ \E i \in 1..Len(_providers) : _providers[i] = llmArg.provider

\* C21: when the requested provider is configured it is the only provider
\* called: if its generate raises the call fails with that error and no
\* other provider of the registry is tried.
C21_RequestedOnly ==
    (llmPc # "idle" /\ HasContext /\ Available) =>
        /\ candidates = <<llmArg.provider>>
        /\ Len(calls) <= 1
        /\ \A i \in 1..Len(calls) : calls[i].name = llmArg.provider
        /\ (llmPc = "trying") => calls = <<>>
        /\ (llmPc = "done") => Len(calls) = 1
        /\ (llmPc = "done" /\ calls[1].raised) =>
              /\ llmRet.kind = "error"
              /\ llmRet.error = "all_failed"
              /\ llmRet.detail = calls[1].out
              /\ llmRet.answer = ""

\* gemini was asked for and raised while openai, configured too, was not
\* called
C21_Witness ==
    /\ llmPc = "done"
    /\ _providers = <<"gemini", "openai">>
    /\ llmArg.provider = "gemini"
    /\ Len(calls) = 1
    /\ calls[1].raised
    /\ llmRet.kind = "error"

\* C22: an answer for non-empty chunks comes with references that are the
\* texts of the retrieved chunks: as many, in the same order, repeated
\* texts repeated, whichever provider gave the answer.
C22_References ==
    (llmPc = "done" /\ HasContext /\ llmRet.kind = "answer") =>
        /\ Len(llmRet.references) = Len(llmArg.context_chunks)
        /\ \A i \in 1..Len(llmArg.context_chunks) :
              llmRet.references[i] = llmArg.context_chunks[i].text

\* the secondary provider answered for two chunks of the same text
C22_Witness ==
    /\ llmPc = "done"
    /\ llmRet.kind = "answer"
    /\ Len(calls) = 2
    /\ calls[2].name = "openai"
    /\ Len(llmArg.context_chunks) = 2
    /\ llmArg.context_chunks[1].text = llmArg.context_chunks[2].text
    /\ Len(llmRet.references) = 2

\* C23: the registry is what construction made of the API keys -- exactly
\* the providers whose key is set, gemini before openai -- and no call of
\* generate_answer adds to it, removes from it or reorders it.
C23_RegistryFixed ==
    /\ [](/\ {_providers[i] : i \in 1..Len(_providers)} = credentials
          /\ Len(_providers) = Cardinality(credentials)
          /\ \A i, j \in 1..Len(_providers) :
                (_providers[i] = "gemini" /\ _providers[j] = "openai") => i < j)
    /\ [][_providers' = _providers /\ credentials' = credentials]_vars

\* a call went through its pass with only the openai key set
C23_Witness ==
    /\ llmPc = "done"
    /\ credentials = {"openai"}
    /\ _providers = <<"openai">>
    /\ calls # <<>>

----------------------------------------------------------------------------
(* Partial delete, read operations *)

\* the records of recs whose source is not s, in their order
Others(recs, s) == SelectSeq(recs, LAMBDA r : r.metadata.source # s)

\* a delete of arg'.source returned after removing some records, not all
PartialDelete ==
    /\ op' = "delete"
    /\ exc' = "none"
    /\ ret'.found
    /\ docs' # <<>>

\* C24: a delete that removes some but not all records leaves the log
\* holding exactly the other records, unchanged and in their order, lowers
\* total_chunks by the number of records removed, and leaves an index whose
\* vector i is the embedding of record i of the new log.
C24_PartialDelete ==
    [][PartialDelete =>
          /\ docs' = Others(docs, arg'.source)
          /\ NTotal(index') = NTotal(index) - (Len(docs) - Len(docs'))
          /\ NTotal(index') = Len(docs')
          /\ \A i \in 1..Len(docs') :
                index'.vecs[i] = VectorOf(docs'[i].text)]_vars

\* C25: query, list_documents and get_collection_stats change nothing of
\* the store: the index, the metadata log and both files are after the
\* call what they were before it, whether the store is empty, populated or
\* holds an index and a log of different lengths.
C25_ReadsArePure ==
    [][(op' \in {"query", "list", "stats"}) =>
          /\ index' = index
          /\ docs' = docs
          /\ idxFile' = idxFile
          /\ metaFile' = metaFile]_vars

\* a query returned rows from a store whose index and log differ in length
C25_Witness ==
    /\ op = "query"
    /\ exc = "none"
    /\ NTotal(index) # Len(docs)
    /\ ret.results # <<>>

----------------------------------------------------------------------------
(* Requests on the event loop *)

\* C26: in one server process the store calls of the handlers never
\* interleave: a handler runs its call of add_chunks, query,
\* delete_document or get_collection_stats from start to end without
\* suspending, so the store call of another request happens only before the
\* upload's first store call, after the upload has responded, or while the
\* upload awaits the read of its next PDF, between two files.
C26_NoInterleaving ==
    /\ []((upPc = "loop") => (files # <<>> /\ IsPdf(Head(files))))
    /\ [][(upPc = "adding") =>
             \/ UNCHANGED storeVars
             \/ op' = "add" /\ upPc' # "adding"]_vars
    /\ [][(storeVars' # storeVars /\ op' # "add") =>
             /\ upPc \in {"idle", "loop", "done"}
             /\ UNCHANGED apiVars]_vars

\* a delete request was served between two files of an upload: the first
\* file is indexed, the upload awaits the read of the second, and the
\* delete has removed what the first file added
C26_Witness ==
    /\ upPc = "loop"
    /\ documents_indexed = 1
    /\ files # <<>>
    /\ op = "delete"
    /\ ret.found
    /\ docs = <<>>

====
